---- MODULE Spec2Model ----
(***************************************************************************)
(* DBAPICursor of prestornado/common.py: the cursor state machine, the     *)
(* poll loop _fetch_while, fetchone / fetchmany / fetchall / executemany,  *)
(* run as tornado coroutines on a single-threaded IOLoop.                  *)
(*                                                                         *)
(* A coroutine runs without interruption from one suspension to the next.  *)
(* cur names the task that is running (0: the IOLoop is idle); pc[t] is    *)
(* the line task t stands at.  A task that stands at a line while another  *)
(* value is in cur is suspended there and waits for the IOLoop to resume   *)
(* it.  The abstract hooks execute and _fetch_more have no body in the     *)
(* base class; they are modelled from their contract.                      *)
(***************************************************************************)
EXTENDS Integers, Sequences, FiniteSets, TLC

\* ---------------------------------------------------------------- bounds
MaxRows == 3
MaxBatch == 2
MaxIdlePolls == 1
MaxSize == 2
MaxParams == 3
MaxQueries == 3
MaxFetchCalls == 4
MaxPollInterval == 2
MaxOtherRows == 2
MaxLen == 3

\* ------------------------------------------------------ program constants
STATE_NONE == 0
STATE_RUNNING == 1
STATE_FINISHED == 2
DefaultPollInterval == 1
\* the default the docstring of arraysize names ("defaults to 1")
DocumentedArraysize == 1

\* Python's None, for a row, the columns and lastrowid.
None == <<>>
\* The size argument of fetchmany when it is left out (size=None).
SizeNone == 0 - 1
\* self._arraysize before its first write: __init__ never sets the attribute.
NoAttr == 0 - 1

Tasks == {1, 2}
SingleTask == {1}
Params == {1, 2}
Sizes == 0..MaxSize
\* the values written to arraysize: the documented default and the largest size
ArraySizes == {1, MaxSize}
ParamSeqs == UNION {[1..n -> Params] : n \in 0..MaxParams}
Idle == 0
\* more fetch-more calls than any one call of the cursor makes on an engine
\* that answers: one per row, one per idle poll, one to learn of the end
MaxHooks == MaxRows + MaxIdlePolls + 1
\* the poll intervals (seconds) handed to the constructor
PollIntervals == 1..MaxPollInterval

VARIABLES
    \* the cursor
    poll_interval, state, data, columns, rownumber, lastrowid, arraysize,
    \* the query engine behind the hooks
    qid, total, served, idle,
    \* the tasks
    cur, pc, op, size, seq, i, result, one, yielded, retpc, ret,
    \* observations
    returned, appended, execs, hooks, sleeps, dropped, at0, entryHead,
    nfetch, onlyFetchone, allFetched,
    \* what the caller handed over: the constructor's poll_interval argument
    \* and the value last written to arraysize
    given,
    \* a second cursor, with the query engine behind its hooks
    other,
    \* the item handed to ParamEscaper.escape_string and what it returned
    esc,
    \* the query engine has stopped answering: from now on the fetch-more
    \* hook appends no row and never reports FINISHED
    stalled

cursorVars == <<poll_interval, state, data, columns, rownumber, lastrowid, arraysize>>
engineVars == <<qid, total, served, idle>>
taskVars == <<cur, pc, op, size, seq, i, result, one, yielded, retpc, ret>>
obsVars ==
    <<returned, appended, execs, hooks, sleeps, dropped, at0, entryHead,
      nfetch, onlyFetchone, allFetched>>
extVars == <<given, other, esc, stalled>>
vars == <<cursorVars, engineVars, taskVars, obsVars, extVars>>

\* ---------------------------------------------------------------- helpers
\* Row k of the result set of query q, as the engine produces it.
Row(q, k) == <<q, k>>
ResultSet(q, n) == [k \in 1..n |-> Row(q, k)]
Min(a, b) == IF a < b THEN a ELSE b

\* seq_of_parameters[:-1] and seq_of_parameters[-1]
\* (faulty variant: the slice left out)
AllButLast_Whole(s) == s
AllButLast(s) == SubSeq(s, 1, Len(s) - 1)
Last(s) == s[Len(s)]

\* lambda: not self._data and self._state != self._STATE_FINISHED
\* (faulty variants: the wrong state constant; the state not looked at)
fn_WrongState == data = <<>> /\ state # STATE_RUNNING
fn_NoState == data = <<>>
fn == data = <<>> /\ state # STATE_FINISHED

\* if self._state == self._STATE_NONE:
\* (faulty variant: the wrong state constant)
NoQuery_WrongState == state = STATE_FINISHED
NoQuery == state = STATE_NONE

\* self._data.popleft(): the row taken and the rows left
\* (faulty variants: pop(), which takes the newest row; self._data[0], which
\* leaves the row in the deque)
Popleft_Pop(d) == [row |-> d[Len(d)], rest |-> SubSeq(d, 1, Len(d) - 1)]
Popleft_Peek(d) == [row |-> Head(d), rest |-> d]
Popleft(d) == [row |-> Head(d), rest |-> Tail(d)]

\* self._rownumber += 1
\* (faulty variant: the increment left out)
Increment_Forgotten(n) == n
Increment(n) == n + 1

\* for _ in xrange(size): the k-th pass (k from 0) is made
\* (faulty variant: one pass too many)
InRange_Inclusive(k, n) == k <= n
InRange(k, n) == k < n

\* collections.deque(): the object that becomes cursor c's _data; each call
\* makes a new deque, which no other cursor refers to
\* (faulty variant: one deque, made once, shared by all cursors)
NewDeque_Shared(c) == 1
NewDeque(c) == c
\* the two cursors, by the deque each one makes for itself
CursorA == 1
CursorB == 2

NoRet == [kind |-> "", rows |-> <<>>]
RetRow(r) == IF r = None THEN [kind |-> "None", rows |-> <<>>]
                         ELSE [kind |-> "row", rows |-> <<r>>]
RetList(rs) == [kind |-> "list", rows |-> rs]
RetOk == [kind |-> "ok", rows |-> <<>>]
RetError(msg) == [kind |-> msg, rows |-> <<>>]
RetValue(v) == [kind |-> "value", rows |-> <<v>>]
NoQueryYet == "ProgrammingError: No query yet"
NoArraysize == "AttributeError: _arraysize"

\* execute called with parameters p while the cursor state was s
ExecEvent(p, s) == [p |-> p, s |-> s]

\* what a call finds when it is made
Snapshot ==
    [state |-> state, data |-> data, rownumber |-> rownumber, columns |-> columns,
     arraysize |-> arraysize, qid |-> qid, allFetched |-> allFetched,
     arg |-> SizeNone]
NoCall ==
    [state |-> STATE_NONE, data |-> <<>>, rownumber |-> 0, columns |-> None,
     arraysize |-> NoAttr, qid |-> 0, allFetched |-> FALSE,
     arg |-> SizeNone]

\* ------------------------------------------------------------ ParamEscaper
\* Characters: a letter, the single quote and the backslash (which
\* escape_string takes literally).  A unicode item is a sequence of
\* characters, a str item (Python 2) a sequence of bytes; every character of
\* the alphabet is one byte in UTF-8.
Quote == "'"
Alphabet == {"a", Quote, "\\"}
Ord == [c \in Alphabet |-> CASE c = "a" -> 97 [] c = Quote -> 39 [] OTHER -> 92]
Bytes == {Ord[c] : c \in Alphabet}
Chr(b) == CHOOSE c \in Alphabet : Ord[c] = b
Texts == UNION {[1..n -> Alphabet] : n \in 0..MaxLen}
ByteStrings == UNION {[1..n -> Bytes] : n \in 0..MaxLen}
Unicode(cs) == [type |-> "unicode", val |-> cs]
Str(bs) == [type |-> "str", val |-> bs]
Items == {Unicode(cs) : cs \in Texts} \cup {Str(bs) : bs \in ByteStrings}

\* if isinstance(item, str): item = item.decode('utf-8')
Decode(item) ==
    IF item.type = "str" THEN [k \in 1..Len(item.val) |-> Chr(item.val[k])]
                         ELSE item.val

\* item.replace("'", "''"): every occurrence, from left to right
\* (faulty variant: replace("'", "''", 1), the first occurrence only)
RECURSIVE Replace_Once(_)
Replace_Once(cs) ==
    IF cs = <<>> THEN <<>>
    ELSE IF Head(cs) = Quote THEN <<Quote, Quote>> \o Tail(cs)
    ELSE <<Head(cs)>> \o Replace_Once(Tail(cs))

RECURSIVE Replace(_)
Replace(cs) ==
    IF cs = <<>> THEN <<>>
    ELSE (IF Head(cs) = Quote THEN <<Quote, Quote>> ELSE <<Head(cs)>>)
            \o Replace(Tail(cs))

\* "'{}'".format(...)
Format(cs) == <<Quote>> \o cs \o <<Quote>>

escape_string(item) == Format(Replace(Decode(item)))

NoOut == <<>>
NoEscape == [item |-> Unicode(<<>>), out |-> NoOut]

\* ------------------------------------------------------------------- Init
\* DBAPICursor(poll_interval=p)
\* (faulty variant of the first assignment: the argument ignored)
SetPollInterval_Default(p) == DefaultPollInterval
SetPollInterval(p) == p

InitWith(p) ==
    /\ poll_interval = SetPollInterval(p)
    /\ given = [poll |-> p, arraysize |-> NoAttr]
    /\ stalled = FALSE
    /\ other = [state |-> STATE_NONE, ref |-> NewDeque(CursorB), data |-> <<>>,
                rownumber |-> 0, columns |-> None, arraysize |-> NoAttr,
                qid |-> 0, total |-> 0, served |-> 0, last |-> None]
    /\ rownumber = 0
    /\ state = STATE_NONE
    /\ data = <<>>
    /\ columns = None
    /\ lastrowid = None
    /\ arraysize = NoAttr
    /\ qid = 0 /\ total = 0 /\ served = 0 /\ idle = 0
    /\ cur = Idle
    /\ pc = [t \in Tasks |-> "idle"]
    /\ op = [t \in Tasks |-> ""]
    /\ size = [t \in Tasks |-> 0]
    /\ seq = [t \in Tasks |-> <<>>]
    /\ i = [t \in Tasks |-> 0]
    /\ result = [t \in Tasks |-> <<>>]
    /\ one = [t \in Tasks |-> None]
    /\ yielded = [t \in Tasks |-> FALSE]
    /\ retpc = [t \in Tasks |-> ""]
    /\ ret = [t \in Tasks |-> NoRet]
    /\ returned = <<>> /\ appended = <<>>
    /\ execs = [t \in Tasks |-> <<>>]
    /\ hooks = [t \in Tasks |-> 0]
    /\ sleeps = [t \in Tasks |-> 0]
    /\ at0 = [t \in Tasks |-> NoCall]
    /\ dropped = [t \in Tasks |-> 0]
    /\ entryHead = [t \in Tasks |-> None]
    /\ nfetch = 0
    /\ onlyFetchone = TRUE
    /\ allFetched = FALSE

\* DBAPICursor(): poll_interval takes its default
Init == InitWith(DefaultPollInterval) /\ esc = NoEscape
\* DBAPICursor(poll_interval=p) for any of the intervals
InitAny == (\E p \in PollIntervals : InitWith(p)) /\ esc = NoEscape

\* ------------------------------------------------- returning to the caller
\* raise Return(r) out of the outermost coroutine of task t
Finish(t, r) ==
    /\ pc' = [pc EXCEPT ![t] = "done"]
    /\ ret' = [ret EXCEPT ![t] = r]
    /\ cur' = Idle

\* an exception leaves every coroutine of task t: no frame catches it
Raise(t, msg) == Finish(t, RetError(msg))

\* the IOLoop runs the callback that resumes a suspended coroutine of task t
Resume(t) ==
    /\ cur = Idle
    /\ pc[t] \in {"fw_after", "fo_tail", "fm_got", "fa_got", "em_while"}
    /\ cur' = t
    /\ UNCHANGED <<cursorVars, engineVars, obsVars>>
    /\ UNCHANGED <<pc, op, size, seq, i, result, one, yielded, retpc, ret>>
    /\ UNCHANGED extVars

\* the caller of the outermost coroutine takes its result
Ack(t) ==
    /\ cur = Idle
    /\ pc[t] = "done"
    /\ pc' = [pc EXCEPT ![t] = "idle"]
    /\ op' = [op EXCEPT ![t] = ""]
    /\ size' = [size EXCEPT ![t] = 0]
    /\ seq' = [seq EXCEPT ![t] = <<>>]
    /\ i' = [i EXCEPT ![t] = 0]
    /\ result' = [result EXCEPT ![t] = <<>>]
    /\ one' = [one EXCEPT ![t] = None]
    /\ yielded' = [yielded EXCEPT ![t] = FALSE]
    /\ retpc' = [retpc EXCEPT ![t] = ""]
    /\ ret' = [ret EXCEPT ![t] = NoRet]
    /\ execs' = [execs EXCEPT ![t] = <<>>]
    /\ hooks' = [hooks EXCEPT ![t] = 0]
    /\ sleeps' = [sleeps EXCEPT ![t] = 0]
    /\ dropped' = [dropped EXCEPT ![t] = 0]
    /\ at0' = [at0 EXCEPT ![t] = NoCall]
    /\ entryHead' = [entryHead EXCEPT ![t] = None]
    /\ UNCHANGED <<cursorVars, engineVars, cur>>
    /\ UNCHANGED <<returned, appended, nfetch, onlyFetchone, allFetched>>
    /\ UNCHANGED extVars

\* ------------------------------------------------------------ _reset_state
\* (faulty variants first: each leaves one of the assignments out)
ResetState_KeepsData ==
    /\ rownumber' = 0
    /\ state' = STATE_NONE
    /\ data' = data
    /\ columns' = None

ResetState_KeepsRowNumber ==
    /\ rownumber' = rownumber
    /\ state' = STATE_NONE
    /\ data' = <<>>
    /\ columns' = None

ResetState_KeepsState ==
    /\ rownumber' = 0
    /\ state' = state
    /\ data' = <<>>
    /\ columns' = None

ResetState_Nothing ==
    /\ rownumber' = rownumber
    /\ state' = state
    /\ data' = data
    /\ columns' = columns

ResetState_KeepsColumns ==
    /\ rownumber' = 0
    /\ state' = STATE_NONE
    /\ data' = <<>>
    /\ columns' = columns

ResetState ==
    /\ rownumber' = 0
    /\ state' = STATE_NONE
    /\ data' = <<>>
    /\ columns' = None

\* ------------------------------------------------------- the abstract hooks
\* execute, first half: the new query's preparation resets the cursor, then
\* the coroutine waits for the engine to accept the query.
ExReset(t) ==
    /\ cur = t
    /\ pc[t] = "ex_reset"
    /\ ResetState
    /\ pc' = [pc EXCEPT ![t] = "ex_submit"]
    /\ cur' = Idle
    /\ returned' = <<>>
    /\ appended' = <<>>
    /\ nfetch' = 0
    /\ onlyFetchone' = TRUE
    /\ allFetched' = FALSE
    /\ UNCHANGED <<poll_interval, lastrowid, arraysize, engineVars>>
    /\ UNCHANGED <<op, size, seq, i, result, one, yielded, retpc, ret>>
    /\ dropped' = [dropped EXCEPT ![t] = @ + Len(data)]
    /\ UNCHANGED <<execs, hooks, sleeps, at0, entryHead>>
    /\ UNCHANGED extVars

\* execute, second half: the engine accepts the query, whose result set has
\* n rows; the state leaves NONE.
ExSubmit(t) ==
    /\ cur = Idle
    /\ pc[t] = "ex_submit"
    /\ \E n \in 0..MaxRows :
        /\ qid' = qid + 1
        /\ total' = n
        /\ served' = 0
        /\ idle' = 0
    /\ state' = STATE_RUNNING
    /\ pc' = [pc EXCEPT ![t] = retpc[t]]
    /\ ret' = [ret EXCEPT ![t] = IF retpc[t] = "done" THEN RetOk ELSE ret[t]]
    /\ UNCHANGED <<poll_interval, data, columns, rownumber, lastrowid, arraysize>>
    /\ UNCHANGED <<cur, op, size, seq, i, result, one, yielded, retpc, obsVars>>
    /\ UNCHANGED extVars

\* _fetch_more: the engine hands over the next k rows of the result set, which
\* the hook appends to _data, and reports completion once all rows are out.
FetchMore(t) ==
    /\ cur = Idle
    /\ pc[t] \in {"fw_yield", "em_yield"}
    /\ hooks[t] < MaxHooks
    /\ \E k \in 0..Min(MaxBatch, total - served), done \in BOOLEAN :
        LET new == [j \in 1..k |-> Row(qid, served + j)] IN
        /\ done => served + k = total
        /\ (k = 0 /\ ~done) => idle < MaxIdlePolls
        /\ data' = data \o new
        /\ served' = served + k
        /\ idle' = IF k = 0 /\ ~done THEN idle + 1 ELSE idle
        /\ state' = IF done THEN STATE_FINISHED ELSE state
        /\ appended' = appended \o new
    /\ columns' = <<qid>>
    /\ hooks' = [hooks EXCEPT ![t] = @ + 1]
    /\ pc' = [pc EXCEPT ![t] = IF @ = "fw_yield" THEN "fw_after" ELSE "em_while"]
    /\ UNCHANGED <<poll_interval, rownumber, lastrowid, arraysize, qid, total>>
    /\ UNCHANGED <<cur, op, size, seq, i, result, one, yielded, retpc, ret>>
    /\ UNCHANGED <<returned, execs, sleeps, dropped, at0, entryHead, nfetch, onlyFetchone, allFetched>>
    /\ UNCHANGED extVars

\* ---------------------------------------------------------------- fetchone
CallFetchone(t) ==
    /\ cur = Idle
    /\ pc[t] = "idle"
    /\ onlyFetchone => nfetch < MaxFetchCalls
    /\ cur' = t
    /\ pc' = [pc EXCEPT ![t] = "fo_check"]
    /\ op' = [op EXCEPT ![t] = "fetchone"]
    /\ nfetch' = IF onlyFetchone THEN nfetch + 1 ELSE nfetch
    /\ at0' = [at0 EXCEPT ![t] = Snapshot]
    /\ UNCHANGED <<cursorVars, engineVars>>
    /\ UNCHANGED <<size, seq, i, result, one, yielded, retpc, ret>>
    /\ UNCHANGED <<returned, appended, execs, hooks, sleeps, dropped, entryHead>>
    /\ UNCHANGED <<onlyFetchone, allFetched>>
    /\ UNCHANGED extVars

\* if self._state == self._STATE_NONE: raise ProgrammingError("No query yet")
FoCheck(t) ==
    /\ cur = t
    /\ pc[t] = "fo_check"
    /\ entryHead' = [entryHead EXCEPT ![t] = IF data = <<>> THEN None ELSE Head(data)]
    /\ yielded' = [yielded EXCEPT ![t] = FALSE]
    /\ IF NoQuery
       THEN Raise(t, NoQueryYet)
       ELSE /\ pc' = [pc EXCEPT ![t] = "fw_while"]
            /\ UNCHANGED <<cur, ret>>
    /\ UNCHANGED <<cursorVars, engineVars>>
    /\ UNCHANGED <<op, size, seq, i, result, one, retpc>>
    /\ UNCHANGED <<returned, appended, execs, hooks, sleeps, dropped, at0>>
    /\ UNCHANGED <<nfetch, onlyFetchone, allFetched>>
    /\ UNCHANGED extVars

\* while fn(): yield self._fetch_more()   -- or the loop ends
FwWhile(t) ==
    /\ cur = t
    /\ pc[t] = "fw_while"
    /\ IF fn
       THEN /\ pc' = [pc EXCEPT ![t] = "fw_yield"]
            /\ yielded' = [yielded EXCEPT ![t] = TRUE]
            /\ cur' = Idle
       ELSE /\ pc' = [pc EXCEPT ![t] = "fo_tail"]
            /\ cur' = IF yielded[t] THEN Idle ELSE t
            /\ UNCHANGED yielded
    /\ UNCHANGED <<cursorVars, engineVars, obsVars>>
    /\ UNCHANGED <<op, size, seq, i, result, one, retpc, ret>>
    /\ UNCHANGED extVars

\* if fn():                               (the test after the hook call)
\* (faulty variant: the test left out, a pause after every hook call)
SleepNeeded_Always == TRUE
SleepNeeded == fn

\* if fn(): time.sleep(self._poll_interval)
\* sleeps[t] is the time task t has slept, in seconds
FwAfter(t) ==
    /\ cur = t
    /\ pc[t] = "fw_after"
    /\ sleeps' = [sleeps EXCEPT ![t] = IF SleepNeeded THEN @ + poll_interval ELSE @]
    /\ pc' = [pc EXCEPT ![t] = "fw_while"]
    /\ UNCHANGED <<cursorVars, engineVars>>
    /\ UNCHANGED <<cur, op, size, seq, i, result, one, yielded, retpc, ret>>
    /\ UNCHANGED <<returned, appended, execs, hooks, dropped, at0, entryHead>>
    /\ UNCHANGED <<nfetch, onlyFetchone, allFetched>>
    /\ UNCHANGED extVars

\* if not self._data: raise Return(None)
\* else: self._rownumber += 1; raise Return(self._data.popleft())
FoTail(t) ==
    /\ cur = t
    /\ pc[t] = "fo_tail"
    /\ IF data = <<>>
       THEN /\ one' = [one EXCEPT ![t] = None]
            /\ UNCHANGED <<rownumber, data, returned>>
       ELSE /\ rownumber' = Increment(rownumber)
            /\ one' = [one EXCEPT ![t] = Popleft(data).row]
            /\ data' = Popleft(data).rest
            /\ returned' = Append(returned, Popleft(data).row)
    /\ IF op[t] = "fetchone"
       THEN Finish(t, RetRow(one'[t]))
       ELSE /\ pc' = [pc EXCEPT ![t] = IF op[t] = "fetchmany" THEN "fm_got" ELSE "fa_got"]
            /\ cur' = IF yielded[t] THEN Idle ELSE t
            /\ UNCHANGED ret
    /\ UNCHANGED <<poll_interval, state, columns, lastrowid, arraysize, engineVars>>
    /\ UNCHANGED <<op, size, seq, i, result, yielded, retpc>>
    /\ UNCHANGED <<appended, execs, hooks, sleeps, dropped, at0, entryHead>>
    /\ UNCHANGED <<nfetch, onlyFetchone, allFetched>>
    /\ UNCHANGED extVars

\* --------------------------------------------------------------- fetchmany
CallFetchmany(t, n) ==
    /\ cur = Idle
    /\ pc[t] = "idle"
    /\ cur' = t
    /\ pc' = [pc EXCEPT ![t] = "fm_size"]
    /\ op' = [op EXCEPT ![t] = "fetchmany"]
    /\ size' = [size EXCEPT ![t] = n]
    /\ onlyFetchone' = FALSE
    /\ nfetch' = 0
    /\ at0' = [at0 EXCEPT ![t] = [Snapshot EXCEPT !.arg = n]]
    /\ UNCHANGED <<cursorVars, engineVars>>
    /\ UNCHANGED <<seq, i, result, one, yielded, retpc, ret>>
    /\ UNCHANGED <<returned, appended, execs, hooks, sleeps, dropped, entryHead, allFetched>>
    /\ UNCHANGED extVars

\* if size is None: size = self.arraysize
\* result = []
FmSize(t) ==
    /\ cur = t
    /\ pc[t] = "fm_size"
    /\ IF size[t] = SizeNone /\ arraysize = NoAttr
       THEN /\ Raise(t, NoArraysize)
            /\ UNCHANGED <<size, result, i>>
       ELSE /\ size' = [size EXCEPT ![t] = IF @ = SizeNone THEN arraysize ELSE @]
            /\ result' = [result EXCEPT ![t] = <<>>]
            /\ i' = [i EXCEPT ![t] = 0]
            /\ pc' = [pc EXCEPT ![t] = "fm_for"]
            /\ UNCHANGED <<cur, ret>>
    /\ UNCHANGED <<cursorVars, engineVars, obsVars>>
    /\ UNCHANGED <<op, seq, one, yielded, retpc>>
    /\ UNCHANGED extVars

\* for _ in xrange(size): one = yield self.fetchone()
\* and, the range used up: raise Return(result)
FmFor(t) ==
    /\ cur = t
    /\ pc[t] = "fm_for"
    /\ IF InRange(i[t], size[t])
       THEN /\ i' = [i EXCEPT ![t] = @ + 1]
            /\ pc' = [pc EXCEPT ![t] = "fo_check"]
            /\ UNCHANGED <<cur, ret>>
       ELSE /\ Finish(t, RetList(result[t]))
            /\ UNCHANGED i
    /\ UNCHANGED <<cursorVars, engineVars, obsVars>>
    /\ UNCHANGED <<op, size, seq, result, one, yielded, retpc>>
    /\ UNCHANGED extVars

\* if one is None: break            (then raise Return(result))
\* else: result.append(one)
FmGot(t) ==
    /\ cur = t
    /\ pc[t] = "fm_got"
    /\ IF one[t] = None
       THEN /\ Finish(t, RetList(result[t]))
            /\ UNCHANGED result
       ELSE /\ result' = [result EXCEPT ![t] = Append(@, one[t])]
            /\ pc' = [pc EXCEPT ![t] = "fm_for"]
            /\ UNCHANGED <<cur, ret>>
    /\ UNCHANGED <<cursorVars, engineVars, obsVars>>
    /\ UNCHANGED <<op, size, seq, i, one, yielded, retpc>>
    /\ UNCHANGED extVars

\* ---------------------------------------------------------------- fetchall
\* result = []; while True: one = yield self.fetchone()
CallFetchall(t) ==
    /\ cur = Idle
    /\ pc[t] = "idle"
    /\ cur' = t
    /\ pc' = [pc EXCEPT ![t] = "fo_check"]
    /\ op' = [op EXCEPT ![t] = "fetchall"]
    /\ result' = [result EXCEPT ![t] = <<>>]
    /\ onlyFetchone' = FALSE
    /\ nfetch' = 0
    /\ at0' = [at0 EXCEPT ![t] = Snapshot]
    /\ UNCHANGED <<cursorVars, engineVars>>
    /\ UNCHANGED <<size, seq, i, one, yielded, retpc, ret>>
    /\ UNCHANGED <<returned, appended, execs, hooks, sleeps, dropped, entryHead, allFetched>>
    /\ UNCHANGED extVars

\* if one is None: break            (then raise Return(result))
\* else: result.append(one)         (then the next fetchone)
FaGot(t) ==
    /\ cur = t
    /\ pc[t] = "fa_got"
    /\ IF one[t] = None
       THEN /\ Finish(t, RetList(result[t]))
            /\ allFetched' = TRUE
            /\ UNCHANGED result
       ELSE /\ result' = [result EXCEPT ![t] = Append(@, one[t])]
            /\ pc' = [pc EXCEPT ![t] = "fo_check"]
            /\ UNCHANGED <<cur, ret, allFetched>>
    /\ UNCHANGED <<cursorVars, engineVars>>
    /\ UNCHANGED <<op, size, seq, i, one, yielded, retpc>>
    /\ UNCHANGED <<returned, appended, execs, hooks, sleeps, dropped, at0, entryHead>>
    /\ UNCHANGED <<nfetch, onlyFetchone>>
    /\ UNCHANGED extVars

\* ----------------------------------------------------- execute, executemany
\* a call of the abstract execute with parameters p
CallExecute(t, p) ==
    /\ cur = Idle
    /\ pc[t] = "idle"
    /\ qid < MaxQueries
    /\ cur' = t
    /\ pc' = [pc EXCEPT ![t] = "ex_reset"]
    /\ op' = [op EXCEPT ![t] = "execute"]
    /\ retpc' = [retpc EXCEPT ![t] = "done"]
    /\ execs' = [execs EXCEPT ![t] = Append(@, ExecEvent(p, state))]
    /\ hooks' = [hooks EXCEPT ![t] = 0]
    /\ at0' = [at0 EXCEPT ![t] = Snapshot]
    /\ UNCHANGED <<cursorVars, engineVars>>
    /\ UNCHANGED <<size, seq, i, result, one, yielded, ret>>
    /\ UNCHANGED <<returned, appended, sleeps, dropped, entryHead>>
    /\ UNCHANGED <<nfetch, onlyFetchone, allFetched>>
    /\ UNCHANGED extVars

CallExecutemany(t, s) ==
    /\ cur = Idle
    /\ pc[t] = "idle"
    /\ qid + Len(s) <= MaxQueries
    /\ cur' = t
    /\ pc' = [pc EXCEPT ![t] = "em_for"]
    /\ op' = [op EXCEPT ![t] = "executemany"]
    /\ seq' = [seq EXCEPT ![t] = s]
    /\ i' = [i EXCEPT ![t] = 1]
    /\ at0' = [at0 EXCEPT ![t] = Snapshot]
    /\ UNCHANGED <<cursorVars, engineVars>>
    /\ UNCHANGED <<size, result, one, yielded, retpc, ret>>
    /\ UNCHANGED <<returned, appended, execs, hooks, sleeps, dropped, entryHead>>
    /\ UNCHANGED <<nfetch, onlyFetchone, allFetched>>
    /\ UNCHANGED extVars

\* for parameters in seq_of_parameters[:-1]:
\*     yield self.execute(operation, parameters)
EmFor(t) ==
    /\ cur = t
    /\ pc[t] = "em_for"
    /\ IF i[t] <= Len(AllButLast(seq[t]))
       THEN /\ pc' = [pc EXCEPT ![t] = "ex_reset"]
            /\ retpc' = [retpc EXCEPT ![t] = "em_while"]
            /\ execs' = [execs EXCEPT ![t] =
                           Append(@, ExecEvent(AllButLast(seq[t])[i[t]], state))]
            /\ hooks' = [hooks EXCEPT ![t] = 0]
       ELSE /\ pc' = [pc EXCEPT ![t] = "em_if"]
            /\ UNCHANGED <<retpc, execs, hooks>>
    /\ UNCHANGED <<cursorVars, engineVars>>
    /\ UNCHANGED <<cur, op, size, seq, i, result, one, yielded, ret>>
    /\ UNCHANGED <<returned, appended, sleeps, dropped, at0, entryHead>>
    /\ UNCHANGED <<nfetch, onlyFetchone, allFetched>>
    /\ UNCHANGED extVars

\* while self._state != self._STATE_FINISHED: yield self._fetch_more()
EmWhile(t) ==
    /\ cur = t
    /\ pc[t] = "em_while"
    /\ IF state # STATE_FINISHED
       THEN /\ pc' = [pc EXCEPT ![t] = "em_yield"]
            /\ cur' = Idle
            /\ UNCHANGED i
       ELSE /\ pc' = [pc EXCEPT ![t] = "em_for"]
            /\ i' = [i EXCEPT ![t] = @ + 1]
            /\ UNCHANGED cur
    /\ UNCHANGED <<cursorVars, engineVars, obsVars>>
    /\ UNCHANGED <<op, size, seq, result, one, yielded, retpc, ret>>
    /\ UNCHANGED extVars

\* if seq_of_parameters: yield self.execute(operation, seq_of_parameters[-1])
EmIf(t) ==
    /\ cur = t
    /\ pc[t] = "em_if"
    /\ IF seq[t] # <<>>
       THEN /\ pc' = [pc EXCEPT ![t] = "ex_reset"]
            /\ retpc' = [retpc EXCEPT ![t] = "done"]
            /\ execs' = [execs EXCEPT ![t] = Append(@, ExecEvent(Last(seq[t]), state))]
            /\ hooks' = [hooks EXCEPT ![t] = 0]
            /\ UNCHANGED <<cur, ret>>
       ELSE /\ Finish(t, RetOk)
            /\ UNCHANGED <<retpc, execs, hooks>>
    /\ UNCHANGED <<cursorVars, engineVars>>
    /\ UNCHANGED <<op, size, seq, i, result, one, yielded>>
    /\ UNCHANGED <<returned, appended, sleeps, dropped, at0, entryHead>>
    /\ UNCHANGED <<nfetch, onlyFetchone, allFetched>>
    /\ UNCHANGED extVars

\* ------------------------------------------- close, set*sizes, arraysize
\* a method whose body is pass
Pass(t, name) ==
    /\ cur = Idle
    /\ pc[t] = "idle"
    /\ pc' = [pc EXCEPT ![t] = "done"]
    /\ op' = [op EXCEPT ![t] = name]
    /\ ret' = [ret EXCEPT ![t] = RetOk]
    /\ at0' = [at0 EXCEPT ![t] = Snapshot]
    /\ UNCHANGED <<cursorVars, engineVars>>
    /\ UNCHANGED <<cur, size, seq, i, result, one, yielded, retpc>>
    /\ UNCHANGED <<returned, appended, execs, hooks, sleeps, dropped, entryHead>>
    /\ UNCHANGED <<nfetch, onlyFetchone, allFetched>>
    /\ UNCHANGED extVars

close(t) == Pass(t, "close")
setinputsizes(t) == Pass(t, "setinputsizes")
setoutputsize(t) == Pass(t, "setoutputsize")

\* the arraysize getter: return self._arraysize
GetArraysize(t) ==
    /\ cur = Idle
    /\ pc[t] = "idle"
    /\ pc' = [pc EXCEPT ![t] = "done"]
    /\ op' = [op EXCEPT ![t] = "arraysize"]
    /\ ret' = [ret EXCEPT ![t] = IF arraysize = NoAttr THEN RetError(NoArraysize)
                                                      ELSE RetValue(arraysize)]
    /\ at0' = [at0 EXCEPT ![t] = Snapshot]
    /\ UNCHANGED <<cursorVars, engineVars>>
    /\ UNCHANGED <<cur, size, seq, i, result, one, yielded, retpc>>
    /\ UNCHANGED <<returned, appended, execs, hooks, sleeps, dropped, entryHead>>
    /\ UNCHANGED <<nfetch, onlyFetchone, allFetched>>
    /\ UNCHANGED extVars

\* the arraysize setter: self._arraysize = value
\* (faulty variant: the value is not stored)
SetArraysize_Ignored(t, v) ==
    /\ cur = Idle
    /\ pc[t] = "idle"
    /\ given' = [given EXCEPT !.arraysize = v]
    /\ UNCHANGED <<cursorVars, engineVars, taskVars, obsVars, other, esc, stalled>>

SetArraysize(t, v) ==
    /\ cur = Idle
    /\ pc[t] = "idle"
    /\ arraysize' = v
    /\ given' = [given EXCEPT !.arraysize = v]
    /\ UNCHANGED <<poll_interval, state, data, columns, rownumber, lastrowid>>
    /\ UNCHANGED <<engineVars, taskVars, obsVars, other, esc, stalled>>

Next ==
    \E t \in SingleTask :
        \/ CallFetchone(t)
        \/ FoCheck(t)
        \/ FwWhile(t)
        \/ FwAfter(t)
        \/ FoTail(t)
        \/ \E n \in Sizes \cup {SizeNone} : CallFetchmany(t, n)
        \/ FmSize(t)
        \/ FmFor(t)
        \/ FmGot(t)
        \/ CallFetchall(t)
        \/ FaGot(t)
        \/ \E p \in Params : CallExecute(t, p)
        \/ \E s \in ParamSeqs : CallExecutemany(t, s)
        \/ EmFor(t)
        \/ EmWhile(t)
        \/ EmIf(t)
        \/ FetchMore(t)
        \/ ExReset(t)
        \/ ExSubmit(t)
        \/ close(t)
        \/ setinputsizes(t)
        \/ setoutputsize(t)
        \/ \E v \in ArraySizes : SetArraysize(t, v)
        \/ GetArraysize(t)
        \/ Resume(t)
        \/ Ack(t)

Spec == Init /\ [][Next]_vars

\* --------------------------------------------- _reset_state called by itself
\* A concrete cursor calls self._reset_state() between two operations, in
\* whatever state the cursor is.
ResetCall(t) ==
    /\ cur = Idle
    /\ pc[t] = "idle"
    /\ ResetState
    /\ pc' = [pc EXCEPT ![t] = "done"]
    /\ op' = [op EXCEPT ![t] = "_reset_state"]
    /\ ret' = [ret EXCEPT ![t] = RetOk]
    /\ at0' = [at0 EXCEPT ![t] = Snapshot]
    /\ returned' = <<>>
    /\ appended' = <<>>
    /\ nfetch' = 0
    /\ onlyFetchone' = TRUE
    /\ allFetched' = FALSE
    /\ dropped' = [dropped EXCEPT ![t] = @ + Len(data)]
    /\ UNCHANGED <<poll_interval, lastrowid, arraysize, engineVars>>
    /\ UNCHANGED <<cur, size, seq, i, result, one, yielded, retpc>>
    /\ UNCHANGED <<execs, hooks, sleeps, entryHead>>
    /\ UNCHANGED extVars

\* A cursor built with any poll interval, on which one task executes,
\* fetches row by row or all at once, writes arraysize, closes, and resets.
NextReset ==
    \E t \in SingleTask :
        \/ ResetCall(t)
        \/ \E p \in Params : CallExecute(t, p)
        \/ ExReset(t)
        \/ ExSubmit(t)
        \/ FetchMore(t)
        \/ CallFetchone(t)
        \/ FoCheck(t)
        \/ FwWhile(t)
        \/ FwAfter(t)
        \/ FoTail(t)
        \/ CallFetchall(t)
        \/ FaGot(t)
        \/ \E v \in ArraySizes : SetArraysize(t, v)
        \/ close(t)
        \/ Resume(t)
        \/ Ack(t)

SpecReset == InitAny /\ [][NextReset]_vars

\* ------------------------------------------- an engine that stops answering
\* execute, second half, on an engine that accepts the query and then never
\* answers again
ExSubmitStalled(t) ==
    /\ cur = Idle
    /\ pc[t] = "ex_submit"
    /\ qid' = qid + 1
    /\ total' = 0
    /\ served' = 0
    /\ idle' = 0
    /\ state' = STATE_RUNNING
    /\ stalled' = TRUE
    /\ pc' = [pc EXCEPT ![t] = retpc[t]]
    /\ ret' = [ret EXCEPT ![t] = IF retpc[t] = "done" THEN RetOk ELSE ret[t]]
    /\ UNCHANGED <<poll_interval, data, columns, rownumber, lastrowid, arraysize>>
    /\ UNCHANGED <<cur, op, size, seq, i, result, one, yielded, retpc, obsVars>>
    /\ UNCHANGED <<given, other, esc>>

\* _fetch_more on that engine: no row, no change of state.  Only the first
\* MaxHooks calls of a task are followed; the rest are like them.
FetchMoreStalled(t) ==
    /\ cur = Idle
    /\ stalled
    /\ pc[t] \in {"fw_yield", "em_yield"}
    /\ hooks[t] < MaxHooks
    /\ hooks' = [hooks EXCEPT ![t] = @ + 1]
    /\ pc' = [pc EXCEPT ![t] = IF @ = "fw_yield" THEN "fw_after" ELSE "em_while"]
    /\ UNCHANGED <<cursorVars, engineVars>>
    /\ UNCHANGED <<cur, op, size, seq, i, result, one, yielded, retpc, ret>>
    /\ UNCHANGED <<returned, appended, execs, sleeps, dropped, at0, entryHead>>
    /\ UNCHANGED <<nfetch, onlyFetchone, allFetched>>
    /\ UNCHANGED extVars

\* what the IOLoop and the engine do of themselves: run a coroutine of task t
\* to its next suspension, complete a pending hook call, resume the coroutine
Run(t) ==
    \/ FoCheck(t)
    \/ FwWhile(t)
    \/ FwAfter(t)
    \/ FoTail(t)
    \/ FmSize(t)
    \/ FmFor(t)
    \/ FmGot(t)
    \/ FaGot(t)
    \/ EmFor(t)
    \/ EmWhile(t)
    \/ EmIf(t)
    \/ ExReset(t)
    \/ ExSubmit(t)
    \/ ~stalled /\ FetchMore(t)
    \/ Resume(t)

\* One task calls the cursor; the engine answers each query after finitely
\* many hook calls, or stops answering for good at some execute.
NextLive ==
    \E t \in SingleTask :
        \/ CallFetchone(t)
        \/ \E n \in Sizes : CallFetchmany(t, n)
        \/ CallFetchall(t)
        \/ CallExecute(t, 1)
        \/ \E s \in {q \in ParamSeqs : \A k \in 1..Len(q) : q[k] = 1} :
              CallExecutemany(t, s)
        \/ Run(t)
        \/ ExSubmitStalled(t)
        \/ FetchMoreStalled(t)
        \/ Ack(t)

\* The IOLoop keeps running what is ready and a hook call on an answering
\* engine completes; the caller is free to stop calling.
SpecLive ==
    /\ Init
    /\ [][NextLive]_vars
    /\ \A t \in SingleTask : WF_vars(Run(t))

\* ------------------------------------------------ two tasks on one cursor
\* Two tasks call fetchone on the same cursor, each whenever it likes; their
\* coroutines interleave at the yields.  A query is executed while neither
\* task is inside a call.
NextTwoTasks ==
    \E t \in Tasks :
        \/ (\A u \in Tasks : pc[u] = "idle") /\ CallExecute(t, 1)
        \/ ExReset(t)
        \/ ExSubmit(t)
        \/ CallFetchone(t)
        \/ FoCheck(t)
        \/ FwWhile(t)
        \/ FwAfter(t)
        \/ FoTail(t)
        \/ FetchMore(t)
        \/ Resume(t)
        \/ Ack(t)

SpecTwoTasks == Init /\ [][NextTwoTasks]_vars

\* ------------------------------------------------- escape_string by itself
\* an item is chosen, and escape_string is applied to it
InitEscape ==
    /\ InitWith(DefaultPollInterval)
    /\ \E item \in Items : esc = [item |-> item, out |-> NoOut]

EscapeString ==
    /\ esc.out = NoOut
    /\ esc' = [esc EXCEPT !.out = escape_string(esc.item)]
    /\ UNCHANGED <<cursorVars, engineVars, taskVars, obsVars, given, other, stalled>>

NextEscape == EscapeString

SpecEscape == InitEscape /\ [][NextEscape]_vars

\* ----------------------------------------------------------- a second cursor
\* Cursor B is another instance of the class, with its own query engine.  Its
\* rows are Row(-q, k), so that they differ from every row of cursor A.  Each
\* step of B is one stretch of a coroutine of B on the same IOLoop; B reads
\* and writes its _data through the reference it holds.
OtherData == IF other.ref = CursorA THEN data ELSE other.data

\* B's attributes after a step that leaves B's deque holding d
OtherWith(rec, d) ==
    IF other.ref = CursorA
    THEN /\ data' = d
         /\ other' = rec
    ELSE /\ data' = data
         /\ other' = [rec EXCEPT !.data = d]

OtherFrame ==
    /\ UNCHANGED <<poll_interval, state, columns, rownumber, lastrowid, arraysize>>
    /\ UNCHANGED <<engineVars, taskVars, obsVars, given, esc, stalled>>

\* B.execute: _reset_state, then the engine accepts the query (n rows)
OtherExecute ==
    /\ cur = Idle
    /\ other.qid = 0
    /\ \E n \in 0..MaxOtherRows :
          LET ref == NewDeque(CursorB) IN
          /\ other' = [state |-> STATE_RUNNING, ref |-> ref,
                       data |-> IF ref = CursorB THEN <<>> ELSE other.data,
                       rownumber |-> 0, columns |-> None,
                       arraysize |-> other.arraysize,
                       qid |-> other.qid + 1, total |-> n, served |-> 0,
                       last |-> None]
          /\ data' = data
    /\ OtherFrame

\* B._fetch_more, called by B's poll loop while fn() holds for B
OtherFetchMore ==
    /\ cur = Idle
    /\ other.state = STATE_RUNNING
    /\ OtherData = <<>>
    /\ \E k \in 0..Min(MaxBatch, other.total - other.served), done \in BOOLEAN :
          LET new == [j \in 1..k |-> Row(0 - other.qid, other.served + j)] IN
          /\ done => other.served + k = other.total
          /\ (k = 0) => done
          /\ OtherWith([other EXCEPT !.served = @ + k,
                                     !.state = IF done THEN STATE_FINISHED ELSE @,
                                     !.columns = <<0 - other.qid>>],
                       OtherData \o new)
    /\ OtherFrame

\* B.fetchone with a row pending: self._rownumber += 1; self._data.popleft()
OtherFetchone ==
    /\ cur = Idle
    /\ other.state # STATE_NONE
    /\ OtherData # <<>>
    /\ OtherWith([other EXCEPT !.rownumber = Increment(@),
                               !.last = Popleft(OtherData).row],
                 Popleft(OtherData).rest)
    /\ OtherFrame

\* B.arraysize = v
OtherSetArraysize(v) ==
    /\ cur = Idle
    /\ other' = [other EXCEPT !.arraysize = v]
    /\ data' = data
    /\ OtherFrame

\* One task works on cursor A (every operation of the class, and the reset),
\* while cursor B is executed on, polled, fetched from and configured.  A runs
\* one execute or one executemany of two parameter sets, B one execute.
NextTwoCursors ==
    \/ \E t \in SingleTask :
        \/ CallFetchone(t)
        \/ FoCheck(t)
        \/ FwWhile(t)
        \/ FwAfter(t)
        \/ FoTail(t)
        \/ CallFetchmany(t, MaxSize)
        \/ FmSize(t)
        \/ FmFor(t)
        \/ FmGot(t)
        \/ CallFetchall(t)
        \/ FaGot(t)
        \/ qid = 0 /\ CallExecute(t, 1)
        \/ qid = 0 /\ CallExecutemany(t, <<1, 2>>)
        \/ EmFor(t)
        \/ EmWhile(t)
        \/ EmIf(t)
        \/ FetchMore(t)
        \/ ExReset(t)
        \/ ExSubmit(t)
        \/ ResetCall(t)
        \/ SetArraysize(t, MaxSize)
        \/ Resume(t)
        \/ Ack(t)
    \/ OtherExecute
    \/ OtherFetchMore
    \/ OtherFetchone
    \/ OtherSetArraysize(MaxSize)

SpecTwoCursors == Init /\ [][NextTwoCursors]_vars


\* ======================================================== the properties
\* The rows of the current result set, in the order the engine produces them.
CurrentResultSet == ResultSet(qid, total)
\* Task t's outermost call has returned (or raised) and its caller has not
\* yet taken the outcome.
Returned(t, name) == pc[t] = "done" /\ op[t] = name

\* C1: fetchone called while the state is NONE fails with the Programming
\* error "No query yet", makes no fetch-more call, and leaves state,
\* pendingRows and rowNumber as the call found them.
C1_NoQueryYet ==
    \A t \in Tasks :
        (Returned(t, "fetchone") /\ at0[t].state = STATE_NONE) =>
            /\ ret[t] = RetError(NoQueryYet)
            /\ hooks[t] = 0
            /\ state = at0[t].state
            /\ data = at0[t].data
            /\ rownumber = at0[t].rownumber

C1_Witness ==
    \E t \in Tasks :
        /\ Returned(t, "fetchone")
        /\ at0[t].state = STATE_NONE
        /\ ret[t] = RetError(NoQueryYet)

\* C2: within one query cycle the rows handed out by fetchone, fetchmany and
\* fetchall are, in order, a prefix of the rows the fetch-more hook appended:
\* the rows returned followed by the rows still pending are exactly the rows
\* appended, and what a call returns is the stretch of that sequence from the
\* row number the call found to the row number it leaves.
C2_Fifo ==
    /\ returned \o data = appended
    /\ \A t \in Tasks :
        (pc[t] = "done" /\ ret[t].kind \in {"row", "list"}) =>
            ret[t].rows = SubSeq(appended, at0[t].rownumber + 1, Len(returned))

C2_Witness ==
    \E t \in Tasks :
        /\ Returned(t, "fetchmany")
        /\ Len(ret[t].rows) = 2
        /\ at0[t].rownumber = 1

\* C3: rowNumber goes up by exactly one on every fetchone that returns a row
\* and is changed by nothing else but a reset, which zeroes it; so rowNumber
\* is the number of rows returned since the last reset, and the rows returned
\* are the first rowNumber rows of the current result set (the next row
\* returned is the one at index rowNumber).
C3_RowNumberState ==
    /\ rownumber = Len(returned)
    /\ state # STATE_NONE =>
          /\ returned = SubSeq(CurrentResultSet, 1, rownumber)
          /\ data = SubSeq(CurrentResultSet, rownumber + 1, served)

C3_RowNumberStep ==
    \A t \in Tasks :
        /\ (pc[t] = "fo_tail" /\ pc'[t] # "fo_tail") =>
              rownumber' = IF one'[t] = None THEN rownumber ELSE rownumber + 1
        /\ (rownumber' # rownumber /\ cur \in {t, Idle} /\ pc'[t] # pc[t]) =>
              \/ pc[t] = "fo_tail" /\ one'[t] # None /\ rownumber' = rownumber + 1
              \/ pc[t] = "ex_reset" /\ rownumber' = 0

\* C3: the state part in every reachable state, the step part on every step.
C3_RowNumber == [](C3_RowNumberState) /\ [][C3_RowNumberStep]_vars

C3_Witness ==
    \E t \in Tasks :
        /\ Returned(t, "close")
        /\ rownumber = 2
        /\ data # <<>>
        /\ state = STATE_RUNNING

\* C4 (as amended): with a result set of three rows r1, r2, r3, the first
\* four fetchone calls after execute return r1, r2, r3 and then the
\* end-of-results sentinel, and rownumber reads 1, 2, 3, 3 after the first,
\* second, third and fourth call (it read 0, 1, 2, 3 before them).
C4_FourFetches ==
    \A t \in Tasks :
        (Returned(t, "fetchone") /\ total = 3 /\ onlyFetchone /\ state # STATE_NONE) =>
            /\ at0[t].rownumber = Min(nfetch - 1, 3)
            /\ nfetch <= 3 =>
                  /\ ret[t] = RetRow(Row(qid, nfetch))
                  /\ rownumber = nfetch
            /\ nfetch >= 4 =>
                  /\ ret[t] = RetRow(None)
                  /\ rownumber = 3

\* C4 as stated: rownumber reads 0, 1, 2, 3 after the first, second, third
\* and fourth call.
C4_AsStated ==
    \A t \in Tasks :
        (Returned(t, "fetchone") /\ total = 3 /\ onlyFetchone /\ state # STATE_NONE) =>
            /\ nfetch <= 3 => ret[t] = RetRow(Row(qid, nfetch))
            /\ nfetch = 4 => ret[t] = RetRow(None)
            /\ nfetch <= 4 => rownumber = nfetch - 1

C4_Witness ==
    \E t \in Tasks :
        /\ Returned(t, "fetchone")
        /\ total = 3
        /\ onlyFetchone
        /\ nfetch = 4
        /\ ret[t] = RetRow(None)
        /\ rownumber = 3

\* C5: a fetchone that returns the end-of-results sentinel does so with the
\* state FINISHED and pendingRows empty, never while the query is RUNNING;
\* and a fetchone that found pendingRows non-empty when it was called (in
\* state RUNNING or FINISHED) returns the row that was then at the head.
C5_SentinelStep ==
    \A t \in Tasks :
        (pc[t] = "fo_tail" /\ pc'[t] # "fo_tail") =>
            /\ one'[t] = None => (state = STATE_FINISHED /\ data = <<>>)
            /\ entryHead[t] # None => one'[t] = entryHead[t]

\* C5: every step that ends a fetchone is such a step.
C5_Sentinel == [][C5_SentinelStep]_vars

C5_Witness ==
    \E t \in Tasks :
        /\ pc[t] = "fa_got"
        /\ one[t] = None
        /\ hooks[t] >= 2
        /\ sleeps[t] >= 1
        /\ result[t] # <<>>

\* C6: executemany(op, [p1..pn]) calls execute exactly n times, once per
\* parameter set and in sequence order; each execute after the first is called
\* with the state FINISHED (the fetch-more hook was called until the query
\* before it finished); no fetch-more call follows the last execute; and with
\* an empty sequence it calls neither and leaves the cursor as it found it.
C6_Executemany ==
    \A t \in Tasks :
        /\ op[t] = "executemany" =>
              /\ Len(execs[t]) <= Len(seq[t])
              /\ \A k \in 1..Len(execs[t]) :
                    /\ execs[t][k].p = seq[t][k]
                    /\ k > 1 => execs[t][k].s = STATE_FINISHED
        /\ Returned(t, "executemany") =>
              /\ Len(execs[t]) = Len(seq[t])
              /\ hooks[t] = 0
              /\ seq[t] = <<>> =>
                    /\ state = at0[t].state
                    /\ data = at0[t].data
                    /\ rownumber = at0[t].rownumber
                    /\ columns = at0[t].columns
                    /\ arraysize = at0[t].arraysize
                    /\ qid = at0[t].qid

C6_Witness ==
    \E t \in Tasks :
        /\ Returned(t, "executemany")
        /\ seq[t] = <<2, 1>>
        /\ dropped[t] > 0
        /\ at0[t].state = STATE_RUNNING

C6_WitnessEmpty ==
    \E t \in Tasks :
        /\ Returned(t, "executemany")
        /\ seq[t] = <<>>
        /\ data # <<>>

\* C7: only the final result set is retained by executemany: when
\* executemany(op, [p1..pn]), n >= 1, has returned, the query of p_n is the
\* current one, no row is pending or counted, and every row pending or
\* returned from then on is a row of the result set of p_n, rowNumber counting
\* those rows alone.
C7_FinalResultSet ==
    /\ \A k \in 1..Len(data) : data[k][1] = qid
    /\ \A k \in 1..Len(returned) : returned[k] = Row(qid, k)
    /\ rownumber = Len(returned)
    /\ \A t \in Tasks :
        (Returned(t, "executemany") /\ seq[t] # <<>>) =>
            /\ qid = at0[t].qid + Len(seq[t])
            /\ data = <<>>
            /\ rownumber = 0
            /\ returned = <<>>

C7_Witness ==
    \E t \in Tasks :
        /\ Returned(t, "executemany")
        /\ Len(seq[t]) = 2
        /\ dropped[t] >= 2

C7_WitnessLater ==
    \E t \in Tasks :
        /\ Returned(t, "fetchall")
        /\ qid = 2
        /\ Len(ret[t].rows) = 3

\* C8: fetchmany(n) called in state RUNNING or FINISHED returns exactly
\* min(n, k) rows, k being the number of rows of the current result set not
\* yet returned: they are the next rows of the result set, in order; exactly
\* those rows leave pendingRows and rowNumber advances by their count, so the
\* call returns an empty sequence when no row remains and never takes more
\* than n rows.
C8_Fetchmany ==
    \A t \in Tasks :
        (Returned(t, "fetchmany") /\ at0[t].state # STATE_NONE /\ size[t] # SizeNone) =>
            LET r0 == at0[t].rownumber
                m == Min(size[t], total - r0)
            IN  /\ ret[t] = RetList(SubSeq(CurrentResultSet, r0 + 1, r0 + m))
                /\ rownumber = r0 + m
                /\ data = SubSeq(CurrentResultSet, r0 + m + 1, served)

C8_Witness ==
    \E t \in Tasks :
        /\ Returned(t, "fetchmany")
        /\ size[t] = 2
        /\ at0[t].rownumber = 2
        /\ total = 3
        /\ Len(ret[t].rows) = 1

C8_WitnessFull ==
    \E t \in Tasks :
        /\ Returned(t, "fetchmany")
        /\ size[t] = 2
        /\ Len(ret[t].rows) = 2
        /\ data # <<>>

\* C9 as stated: fetchall called in state RUNNING or FINISHED returns all the
\* rows of the current result set not yet returned, in order, and leaves the
\* state FINISHED and pendingRows empty; every fetchall, fetchone or fetchmany
\* call after it and before the next execute returns an empty sequence (or the
\* sentinel) and leaves rowNumber alone.
C9_AsStated ==
    \A t \in Tasks :
        /\ (Returned(t, "fetchall") /\ at0[t].state # STATE_NONE) =>
              /\ ret[t] = RetList(SubSeq(CurrentResultSet, at0[t].rownumber + 1, total))
              /\ state = STATE_FINISHED
              /\ data = <<>>
        /\ (pc[t] = "done" /\ op[t] \in {"fetchone", "fetchmany", "fetchall"}
                /\ at0[t].allFetched) =>
              /\ ret[t] \in {RetList(<<>>), RetRow(None)}
              /\ rownumber = at0[t].rownumber

\* What does hold of fetchall: C9 but for the fetchmany call that names no
\* size while arraysize was never written.
C9_ButDefaultSize ==
    \A t \in Tasks :
        /\ (Returned(t, "fetchall") /\ at0[t].state # STATE_NONE) =>
              /\ ret[t] = RetList(SubSeq(CurrentResultSet, at0[t].rownumber + 1, total))
              /\ state = STATE_FINISHED
              /\ data = <<>>
        /\ (pc[t] = "done" /\ op[t] \in {"fetchone", "fetchmany", "fetchall"}
                /\ at0[t].allFetched /\ ret[t] # RetError(NoArraysize)) =>
              /\ ret[t] \in {RetList(<<>>), RetRow(None)}
              /\ rownumber = at0[t].rownumber

\* C10: the state moves only NONE -> RUNNING -> FINISHED within a query cycle
\* and back to NONE only by the reset that starts a new query; and it is
\* written only inside execute, the fetch-more hook and _reset_state, never by
\* fetchone, fetchmany, fetchall, executemany, close, setinputsizes or
\* setoutputsize themselves.
C10_StateStep ==
    state' # state =>
        \E t \in Tasks :
            /\ pc'[t] # pc[t]
            /\ \/ pc[t] = "ex_reset" /\ state' = STATE_NONE
               \/ pc[t] = "ex_submit" /\ state = STATE_NONE /\ state' = STATE_RUNNING
               \/ /\ pc[t] \in {"fw_yield", "em_yield"}
                  /\ state = STATE_RUNNING
                  /\ state' = STATE_FINISHED

\* C10: every step that changes the state is one of these.
C10_StateMachine == [][C10_StateStep]_vars

C10_Witness ==
    \E t \in Tasks :
        /\ pc[t] = "ex_submit"
        /\ state = STATE_NONE
        /\ at0[t].state = STATE_FINISHED
        /\ at0[t].qid = 2

\* C11: in every reachable state pendingRows is non-empty only while the
\* state is RUNNING or FINISHED; whenever the state is NONE, pendingRows is
\* empty, rowNumber is 0 and columns is absent.
C11_NoneIsEmpty ==
    /\ data # <<>> => state \in {STATE_RUNNING, STATE_FINISHED}
    /\ state = STATE_NONE =>
          /\ data = <<>>
          /\ rownumber = 0
          /\ columns = None

\* a reset has just cleared a cursor that had rows pending, rows counted and
\* columns known
C11_Witness ==
    \E t \in Tasks :
        /\ pc[t] = "ex_submit"
        /\ state = STATE_NONE
        /\ dropped[t] > 0
        /\ at0[t].rownumber > 0
        /\ at0[t].columns # None

\* the last batch is still pending after FINISHED was reached
C11_WitnessPending ==
    /\ state = STATE_FINISHED
    /\ Len(data) = 2

\* the cursor as _reset_state leaves it
IsReset(c) ==
    /\ c.rownumber = 0
    /\ c.state = STATE_NONE
    /\ c.data = <<>>
    /\ c.columns = None

\* C12: _reset_state, from any cursor state, sets rowNumber to 0, state to
\* NONE, pendingRows to empty and columns to absent, and leaves
\* pollIntervalSeconds, lastRowId and arraySize as they were; applied to a
\* cursor that is already reset it changes nothing (twice is the same as
\* once).  A freshly constructed cursor is in the reset state, with lastRowId
\* absent and pollIntervalSeconds equal to the constructor's argument.
C12_ResetState ==
    /\ poll_interval = given.poll
    /\ lastrowid = None
    /\ (qid = 0 /\ given.arraysize = NoAttr /\ \A t \in Tasks : pc[t] = "idle") =>
          /\ IsReset(Snapshot)
          /\ arraysize = NoAttr
    /\ \A t \in Tasks :
        (Returned(t, "_reset_state") \/ pc[t] = "ex_submit") =>
            /\ IsReset(Snapshot)
            /\ arraysize = at0[t].arraysize
            /\ IsReset(at0[t]) => [Snapshot EXCEPT !.allFetched = FALSE]
                                    = [at0[t] EXCEPT !.allFetched = FALSE]

\* _reset_state called on a cursor with a finished query, rows pending and
\* arraysize written, built with a poll interval other than the default
C12_Witness ==
    \E t \in Tasks :
        /\ Returned(t, "_reset_state")
        /\ at0[t].state = STATE_FINISHED
        /\ at0[t].data # <<>>
        /\ at0[t].rownumber > 0
        /\ arraysize = MaxSize
        /\ poll_interval = MaxPollInterval

\* _reset_state called a second time, right after the first
C12_WitnessTwice ==
    \E t \in Tasks :
        /\ Returned(t, "_reset_state")
        /\ at0[t].state = STATE_NONE
        /\ at0[t].qid > 0

\* C13 as stated: fetchmany, for every requested size n >= 0 (named or taken
\* from arraysize), and fetchall, called while the state is NONE, fail with
\* the Programming error "No query yet" instead of returning a sequence.
C13_AsStated ==
    \A t \in Tasks :
        (pc[t] = "done" /\ op[t] \in {"fetchmany", "fetchall"}
            /\ at0[t].state = STATE_NONE) =>
                ret[t] = RetError(NoQueryYet)

\* What does hold in state NONE: fetchall and fetchmany(n) with n >= 1 fail
\* with "No query yet"; fetchmany(0) never reaches fetchone and returns the
\* empty list; fetchmany() on a cursor whose arraysize was never written
\* fails on the missing attribute.
C13_ButZeroAndDefault ==
    \A t \in Tasks :
        (pc[t] = "done" /\ op[t] \in {"fetchmany", "fetchall"}
            /\ at0[t].state = STATE_NONE) =>
                ret[t] = IF op[t] = "fetchall" \/ size[t] >= 1
                            THEN RetError(NoQueryYet)
                         ELSE IF size[t] = 0 THEN RetList(<<>>)
                         ELSE RetError(NoArraysize)

\* C14: arraysize round-trips: once v was written to arraysize, reading it
\* returns v until the next write, whatever execute, fetch, reset or close
\* came between; and fetchmany called with no size does what fetchmany(v)
\* does: in state NONE it fails with "No query yet", otherwise it returns the
\* next min(v, k) rows of the result set, never more than v.
C14_Arraysize ==
    /\ given.arraysize # NoAttr => arraysize = given.arraysize
    /\ \A t \in Tasks :
        /\ (Returned(t, "arraysize") /\ given.arraysize # NoAttr) =>
              ret[t] = RetValue(given.arraysize)
        /\ (Returned(t, "fetchmany") /\ at0[t].arg = SizeNone
                /\ given.arraysize # NoAttr) =>
              LET v == given.arraysize
                  r0 == at0[t].rownumber
                  m == Min(v, total - r0)
              IN  /\ size[t] = v
                  /\ Len(ret[t].rows) <= v
                  /\ IF at0[t].state = STATE_NONE
                     THEN ret[t] = RetError(NoQueryYet)
                     ELSE /\ ret[t] = RetList(SubSeq(CurrentResultSet, r0 + 1, r0 + m))
                          /\ rownumber = r0 + m

\* arraysize was written before a query ran and read after it had finished
C14_Witness ==
    \E t \in Tasks :
        /\ Returned(t, "arraysize")
        /\ ret[t] = RetValue(MaxSize)
        /\ state = STATE_FINISHED
        /\ rownumber > 0

\* fetchmany() took arraysize rows
C14_WitnessFetchmany ==
    \E t \in Tasks :
        /\ Returned(t, "fetchmany")
        /\ at0[t].arg = SizeNone
        /\ Len(ret[t].rows) = MaxSize
        /\ data # <<>>

\* C15 as stated: arraysize defaults to 1: on a cursor whose arraysize was
\* never written, reading arraysize yields 1, and fetchmany called with no
\* size returns at most one row (in state RUNNING or FINISHED) rather than
\* failing.
C15_AsStated ==
    \A t \in Tasks :
        given.arraysize = NoAttr =>
            /\ Returned(t, "arraysize") => ret[t] = RetValue(DocumentedArraysize)
            /\ (Returned(t, "fetchmany") /\ at0[t].arg = SizeNone
                    /\ at0[t].state # STATE_NONE) =>
                  /\ ret[t].kind = "list"
                  /\ Len(ret[t].rows) <= DocumentedArraysize

\* What the code does instead: both fail on the attribute that __init__ never
\* set, and the cursor is left as it was.
C15_MissingAttribute ==
    \A t \in Tasks :
        given.arraysize = NoAttr =>
            /\ arraysize = NoAttr
            /\ (Returned(t, "arraysize")
                    \/ (Returned(t, "fetchmany") /\ at0[t].arg = SizeNone)) =>
                  /\ ret[t] = RetError(NoArraysize)
                  /\ data = at0[t].data
                  /\ rownumber = at0[t].rownumber

\* the attributes of the two cursors that C16 names
AttrsA == <<state, data, rownumber, columns, arraysize>>
AttrsB == <<other.state, OtherData, other.rownumber, other.columns, other.arraysize>>

\* C16 (step): every step of an operation on cursor A (execute, fetch-more,
\* fetchone, fetchmany, fetchall, executemany, reset, arraysize write) leaves
\* B's state, pendingRows, rowNumber, columns and arraySize unchanged, and
\* every step of an operation on B leaves A's unchanged.
C16_Step ==
    /\ (taskVars' # taskVars \/ AttrsA' # AttrsA \/ engineVars' # engineVars) =>
          AttrsB' = AttrsB
    /\ other' # other => AttrsA' = AttrsA

\* C16 (state): the rows B holds and returns are those of B's own result set,
\* in order, whatever A did in between (and A's are those of A's).
C16_State ==
    /\ other.state # STATE_NONE =>
          /\ OtherData = SubSeq(ResultSet(0 - other.qid, other.total),
                                other.rownumber + 1, other.served)
          /\ other.rownumber > 0 =>
                other.last = Row(0 - other.qid, other.rownumber)
    /\ returned \o data = appended
    /\ \A k \in 1..Len(appended) : appended[k][1] = qid

\* C16: multiple cursors are independent, in every reachable state and on
\* every step of any interleaving of the operations on two cursors.
C16_Independent == [](C16_State) /\ [][C16_Step]_vars

\* A stands in the drain loop of executemany while B, executed on and polled,
\* has returned a row, holds another and has its arraysize written
C16_Witness ==
    \E t \in Tasks :
        /\ pc[t] = "em_yield"
        /\ other.state = STATE_FINISHED
        /\ other.rownumber = 1
        /\ Len(OtherData) = 1
        /\ other.arraysize = MaxSize
        /\ arraysize = NoAttr

\* both cursors hold rows while B's query is running and A's has finished
C16_WitnessBoth ==
    /\ state = STATE_FINISHED
    /\ data # <<>>
    /\ rownumber > 0
    /\ other.state = STATE_RUNNING
    /\ OtherData # <<>>

\* the number of quotes among the first k characters of cs
QuotesIn(cs, k) == Cardinality({j \in 1..k : cs[j] = Quote})

\* cs with every pair of adjacent quotes, taken from the left, made one quote
RECURSIVE Undouble(_)
Undouble(cs) ==
    IF cs = <<>> THEN <<>>
    ELSE IF Len(cs) >= 2 /\ cs[1] = Quote /\ cs[2] = Quote
         THEN <<Quote>> \o Undouble(SubSeq(cs, 3, Len(cs)))
    ELSE <<Head(cs)>> \o Undouble(Tail(cs))

\* C17: escape_string maps every text V to a quote, then V with every quote
\* made two quotes, then a quote: character k of V stands at position
\* 1 + k + (quotes before k) of the result and, if a quote, is followed by a
\* second one.  The result has length len(V) + 2 + (quotes in V); every
\* maximal run of quotes strictly inside the outer pair has even length; the
\* mapping is injective, un-doubling the inside giving V back.
C17_EscapeString ==
    esc.out # NoOut =>
        LET V == IF esc.item.type = "str"
                    THEN [k \in 1..Len(esc.item.val) |-> Chr(esc.item.val[k])]
                    ELSE esc.item.val
            out == esc.out
            n == Len(out)
        IN  /\ n = Len(V) + 2 + QuotesIn(V, Len(V))
            /\ out[1] = Quote
            /\ out[n] = Quote
            /\ \A k \in 1..Len(V) :
                  LET o == 1 + k + QuotesIn(V, k - 1) IN
                  /\ out[o] = V[k]
                  /\ V[k] = Quote => out[o + 1] = Quote
            /\ \A a \in 2..(n - 1) : \A b \in a..(n - 1) :
                  ( /\ \A j \in a..b : out[j] = Quote
                    /\ (a = 2 \/ out[a - 1] # Quote)
                    /\ (b = n - 1 \/ out[b + 1] # Quote) )
                  => (b - a + 1) % 2 = 0
            /\ Undouble(SubSeq(out, 2, n - 1)) = V
            /\ \A W \in Texts : escape_string(Unicode(W)) = out => W = V

\* the text a, quote, quote has become quote, a, and five quotes: both quotes
\* doubled, the run inside the outer pair of length four
C17_Witness ==
    /\ esc.item = Unicode(<<"a", Quote, Quote>>)
    /\ esc.out = <<Quote, "a", Quote, Quote, Quote, Quote, Quote>>

\* a byte string with a quote and a backslash has been escaped
C17_WitnessStr ==
    /\ esc.item = Str(<<39, 92>>)
    /\ esc.out = <<Quote, Quote, Quote, "\\", Quote>>

\* C18 (step): in the poll loop of fetchone a pause of pollIntervalSeconds is
\* made only right after a fetch-more hook call that left pendingRows empty
\* and the state not FINISHED, and is made then; none is made after a hook
\* call that appended a row or reached FINISHED, none before the first hook
\* call; and a fetchone that finds pendingRows non-empty or the state
\* FINISHED on entry leaves the loop at once, with no hook call and no pause.
C18_Step ==
    \A t \in Tasks :
        /\ (pc'[t] = "fw_after" /\ pc[t] # "fw_after") =>
              /\ pc[t] = "fw_yield"
              /\ hooks'[t] = hooks[t] + 1
              /\ sleeps'[t] = sleeps[t]
        /\ (pc[t] = "fw_after" /\ pc'[t] # "fw_after") =>
              sleeps'[t] = IF data = <<>> /\ state # STATE_FINISHED
                              THEN sleeps[t] + poll_interval
                              ELSE sleeps[t]
        /\ sleeps'[t] > sleeps[t] =>
              /\ pc[t] = "fw_after"
              /\ hooks[t] >= 1
              /\ data = <<>>
              /\ state # STATE_FINISHED
        /\ (pc[t] = "fw_while" /\ pc'[t] # "fw_while" /\ ~yielded[t]
                /\ (data # <<>> \/ state = STATE_FINISHED)) =>
              /\ pc'[t] = "fo_tail"
              /\ ~yielded'[t]
              /\ hooks'[t] = hooks[t]
              /\ sleeps'[t] = sleeps[t]
        /\ (pc[t] = "fo_tail" /\ pc'[t] # "fo_tail" /\ ~yielded[t]) =>
              /\ hooks'[t] = hooks[t]
              /\ sleeps'[t] = sleeps[t]

\* C18 (state): a fetchone called with rows pending or with the state
\* FINISHED has returned without a hook call and without a pause; the pauses
\* of a call are never more than its hook calls.
C18_State ==
    \A t \in Tasks :
        /\ (Returned(t, "fetchone")
                /\ (at0[t].data # <<>> \/ at0[t].state = STATE_FINISHED)) =>
              /\ hooks[t] = 0
              /\ sleeps[t] = 0
        /\ op[t] \in {"fetchone", "fetchmany", "fetchall"} =>
              sleeps[t] <= hooks[t] * poll_interval
        /\ op[t] \notin {"fetchone", "fetchmany", "fetchall"} => sleeps[t] = 0

\* C18: the pauses of the poll loop, on every step and in every state.
C18_Pauses == [](C18_State) /\ [][C18_Step]_vars

\* a fetchone that paused after its first hook call and not after its second
C18_Witness ==
    \E t \in Tasks :
        /\ Returned(t, "fetchone")
        /\ hooks[t] = 2
        /\ sleeps[t] = poll_interval
        /\ ret[t].kind = "row"

\* a fetchone that found a row pending, made no hook call and did not pause
C18_WitnessNoHook ==
    \E t \in Tasks :
        /\ Returned(t, "fetchone")
        /\ at0[t].data # <<>>
        /\ at0[t].state = STATE_RUNNING
        /\ hooks[t] = 0

\* task t is inside a call that C19 speaks of
InFetch(t) ==
    /\ pc[t] \notin {"idle", "done"}
    /\ op[t] \in {"fetchone", "fetchmany", "fetchall"}
    /\ at0[t].state # STATE_NONE
InExecutemany(t) == pc[t] \notin {"idle", "done"} /\ op[t] = "executemany"

\* C19 (liveness): while the engine answers (every query reaches FINISHED
\* after finitely many fetch-more calls, and the hook is scheduled fairly),
\* every fetchone, fetchmany and fetchall call made in state RUNNING or
\* FINISHED eventually returns, and so does every executemany call.
C19_Returns ==
    \A t \in SingleTask :
        /\ (InFetch(t) /\ ~stalled) ~> (pc[t] = "done" \/ stalled)
        /\ (InExecutemany(t) /\ ~stalled) ~> (pc[t] = "done" \/ stalled)

\* C19 (no timeout): once the engine has stopped answering, a fetchone called
\* in state RUNNING with no row pending never returns.
C19_NeverReturns ==
    \A t \in Tasks :
        (stalled /\ at0[t].state = STATE_RUNNING /\ at0[t].data = <<>>) =>
            ~Returned(t, "fetchone")

\* C19: both halves.
C19_Liveness == C19_Returns /\ [](C19_NeverReturns)

\* fetchall has returned a whole result set after idle polls and pauses
C19_Witness ==
    \E t \in Tasks :
        /\ Returned(t, "fetchall")
        /\ ~stalled
        /\ Len(ret[t].rows) = MaxRows
        /\ sleeps[t] > 0

\* fetchone has polled a stalled engine MaxHooks times and is still polling
C19_WitnessStalled ==
    \E t \in Tasks :
        /\ stalled
        /\ op[t] = "fetchone"
        /\ pc[t] = "fw_yield"
        /\ hooks[t] = MaxHooks
        /\ sleeps[t] = MaxHooks * poll_interval

\* C20 (step): the emptiness check and the removal of the head row are one
\* step of fetchone: the step that ends a fetchone finds pendingRows empty
\* and removes nothing, or removes exactly the row then at the head, counts
\* it and returns it to that caller; nothing else shortens pendingRows but a
\* reset.
C20_Step ==
    /\ \A t \in Tasks :
        (pc[t] = "fo_tail" /\ pc'[t] # "fo_tail") =>
            IF data = <<>>
            THEN /\ data' = <<>>
                 /\ rownumber' = rownumber
                 /\ ret'[t] = RetRow(None)
            ELSE /\ data' = Tail(data)
                 /\ rownumber' = rownumber + 1
                 /\ ret'[t] = RetRow(Head(data))
    /\ Len(data') < Len(data) =>
          \E t \in Tasks :
              /\ pc'[t] # pc[t]
              /\ pc[t] \in {"fo_tail", "ex_reset"}

\* C20 (state): every appended row is still pending or was returned to one
\* caller, in order and once (no row lost, none returned twice); rowNumber
\* is the number of rows returned to the two callers together; two callers
\* never hold the same row.
C20_State ==
    /\ returned \o data = appended
    /\ \A j, k \in 1..Len(appended) : j # k => appended[j] # appended[k]
    /\ rownumber = Len(returned)
    /\ \A t \in Tasks :
        (Returned(t, "fetchone") /\ ret[t].kind = "row") =>
            /\ \E k \in 1..Len(returned) : returned[k] = ret[t].rows[1]
            /\ \A u \in Tasks \ {t} :
                  (Returned(u, "fetchone") /\ ret[u].kind = "row") => ret[u] # ret[t]

\* C20: two tasks calling fetchone on one cursor, in every reachable state
\* and on every step.
C20_TwoTasks == [](C20_State) /\ [][C20_Step]_vars

\* both tasks polled while nothing was pending, and each was returned one of
\* the first two rows
C20_Witness ==
    /\ Returned(1, "fetchone")
    /\ Returned(2, "fetchone")
    /\ hooks[1] > 0
    /\ hooks[2] > 0
    /\ ret[1].kind = "row"
    /\ ret[2].kind = "row"
    /\ rownumber = 2

\* two tasks were both waiting for one row; the first to run took it and the
\* second found pendingRows empty
C20_WitnessRace ==
    \E t \in Tasks, u \in Tasks :
        /\ Returned(t, "fetchone")
        /\ ret[t].kind = "row"
        /\ pc[u] = "fo_tail"
        /\ yielded[u]
        /\ data = <<>>
        /\ state = STATE_RUNNING

====
